---- MODULE Spec2Model ----
(***************************************************************************)
(* A model of conda-constructor's package fetcher (constructor/fcp.py)     *)
(* and of the header rendering and concatenation of its shell-archive      *)
(* assembler (constructor/shar.py).                                        *)
(*                                                                         *)
(* Text is a sequence of one-character strings, so that sorting, rsplit,   *)
(* count and replace are computed as Python computes them.  File sizes are *)
(* unbounded Python ints: they are decimal numbers, kept as little-endian  *)
(* digit sequences, so that the 18..22 digit fields of the header are      *)
(* reached.                                                                *)
(***************************************************************************)
EXTENDS Integers, Sequences, FiniteSets, TLC

VARIABLES
    \* ---- fcp.py: main ----
    pc,           \* the step of main() that runs next, or that failed
    status,       \* "running", "done" or "failed"
    err,          \* the error that ended the build
    info,         \* the build configuration passed to main()
    dists,        \* module global: the working package set (filenames)
    index,        \* module global: filename -> record of the channel index
    urls,         \* module global: filename -> channel URL
    md5s,         \* module global: filename -> inline checksum or None
    cache,        \* info['_download_dir']: filename -> content hash
    di,           \* fetch: the loop index into dists
    info_urls,    \* info['_urls']
    io,           \* the calls made to the fetch capabilities, in order
    build,        \* the number of calls of main() in this process so far
    \* ---- shar.py: get_header and the concatenation of create ----
    sharPc,       \* position in create(), lines 168-183
    sharInfo,     \* info: name, the header template, as create() receives them
    conda_exec,   \* getsize(conda_exec), a decimal number
    tarball,      \* getsize(tarball), a decimal number
    data,         \* get_header's local `data` at line 78
    header,       \* create's local `header`: what get_header returned
    shar,         \* the file at info['_outpath']
    renders,      \* the calls of get_header so far: inputs and result
    \* ---- shar.py: create, lines 137-166: the master tarball ----
    stagePc,      \* position in create(), lines 137-166
    stageErr,     \* the exception that ended create()
    ui,           \* the loop index into info['_urls'], line 142
    tmp_tar,      \* t: the members of the master tarball tmp.tar
    local_subdir_repodata,  \* create's local: subdir -> sections -> filenames
    repodata_json \* the file ./repodata.json that add_repodata writes

sharVars == <<sharPc, sharInfo, conda_exec, tarball, data, header, shar, renders>>

fcpVars == <<pc, status, err, info, dists, index, urls, md5s, cache, di, info_urls, io,
             build>>

stageVars == <<stagePc, stageErr, ui, tmp_tar, local_subdir_repodata, repodata_json>>

vars == <<pc, status, err, info, dists, index, urls, md5s, cache, di, info_urls, io,
          build, sharPc, sharInfo, conda_exec, tarball, data, header, shar, renders,
          stagePc, stageErr, ui, tmp_tar, local_subdir_repodata, repodata_json>>

(***************************************************************************)
(* Bounds of the model.                                                    *)
(***************************************************************************)
MaxTotalOcc == 2       \* occurrences of @TOTAL_SIZE_BYTES@ in the template
TemplateTextLen == 40  \* characters of shell text in the template
MaxChunks == 2         \* chunks copied before a modelled I/O failure
MaxResolved == 3       \* Dists in a solution of the resolver
MaxExclude == 2        \* names in info['exclude']
MaxPackages == 2       \* lines in info['packages']
MaxBuilds == 2         \* calls of main() in one process

(***************************************************************************)
(* Text: Python str as a sequence of one-character strings.                *)
(***************************************************************************)
\* The characters of the model, in code-point order.
Alphabet ==
    <<" ", "*", "-", ".", "/", "0", "1", "2", "3", "<", "=", ">",
      "a", "b", "c", "d", "f", "h", "m", "n", "o", "p", "r", "t", "u", "y", "z">>

Ord(c) == CHOOSE k \in DOMAIN Alphabet : Alphabet[k] = c

\* a < b on str: lexicographic by code point.
RECURSIVE StrLess(_, _)
StrLess(a, b) ==
    IF b = <<>> THEN FALSE
    ELSE IF a = <<>> THEN TRUE
    ELSE IF Head(a) # Head(b) THEN Ord(Head(a)) < Ord(Head(b))
    ELSE StrLess(Tail(a), Tail(b))

\* s.count(c)
Count(s, c) == Cardinality({k \in DOMAIN s : s[k] = c})

\* s.replace(c, r) for single characters
ReplaceChar(s, c, r) == [k \in DOMAIN s |-> IF s[k] = c THEN r ELSE s[k]]

\* s.endswith(suffix)
EndsWith(s, suffix) ==
    /\ Len(s) >= Len(suffix)
    /\ SubSeq(s, Len(s) - Len(suffix) + 1, Len(s)) = suffix

Range(s) == {s[k] : k \in DOMAIN s}

SetMax(S) == CHOOSE x \in S : \A y \in S : y <= x

TarBz2 == <<".", "t", "a", "r", ".", "b", "z", "2">>

DotConda == <<".", "c", "o", "n", "d", "a">>

\* constructor.install.name_dist: dist.rsplit('-', 2)[0]
name_dist(fn) ==
    LET P == {k \in DOMAIN fn : fn[k] = "-"}
    IN IF P = {} THEN fn
       ELSE LET last == SetMax(P)
                Q == P \ {last}
            IN IF Q = {} THEN SubSeq(fn, 1, last - 1)
               ELSE SubSeq(fn, 1, SetMax(Q) - 1)

\* constructor.utils.filename_dist: a filename is its own filename
filename_dist(dist) == dist

Python == <<"p", "y", "t", "h", "o", "n">>

\* A regex group that did not take part, an absent dict key: falsy values.
NoUrl == ""

NoMd5 == <<>>

NoErr == ""

(***************************************************************************)
(* The world outside: the channel index, the resolver, the package lines.  *)
(***************************************************************************)
python_3 == Python \o <<"-", "3", "-", "0">> \o TarBz2
python_2 == Python \o <<"-", "2", "-", "0">> \o TarBz2
numpy_1 == <<"n", "u", "m", "p", "y", "-", "1", "-", "0">> \o TarBz2
numpy_2 == <<"n", "u", "m", "p", "y", "-", "2", "-", "0">> \o TarBz2
zlib_1 == <<"z", "l", "i", "b", "-", "1", "-", "0">> \o TarBz2
foo_1 == <<"f", "o", "o", "-", "1", "-", "0">> \o TarBz2
foo_conda == <<"f", "o", "o", "-", "1", "-", "0">> \o DotConda

\* The content hash of the artifact a channel serves under a filename.
Md5(fn) == <<"md5">> \o fn

Stale == <<"md5", "stale">>

\* What fetch_index returns for the configured channels.
ChannelIndex ==
    [fn \in {python_3, numpy_1, numpy_2, zlib_1, foo_1} |->
        [channel |-> "https://repo/linux-64", md5 |-> Md5(fn)]]

\* What fetch_index returns for the URL of an explicit package line.
LocalUrl == "file:///bld/noarch/"

UrlIndex(url) ==
    IF url = LocalUrl
    THEN [fn \in {python_2, foo_1} |-> [channel |-> LocalUrl, md5 |-> Md5(fn)]]
    ELSE ChannelIndex

EmptyMap == [x \in {} |-> NoMd5]

\* The dependencies the index records, by package name.
Depends(name) ==
    IF name = Python THEN {<<"z", "l", "i", "b">>}
    ELSE IF name = <<"n", "u", "m", "p", "y">> THEN {Python, <<"z", "l", "i", "b">>}
    ELSE {}

\* Resolve.solve: one Dist per package name, python among them (resolve
\* always passes a python spec), in the resolver's order.
Solutions ==
    {s \in {<<python_3, zlib_1>>,
            <<zlib_1, numpy_1, python_3>>,
            <<numpy_1, python_3, zlib_1>>,
            <<numpy_1, foo_1, python_3, zlib_1>>} : Len(s) <= MaxResolved}

\* Resolve.graph_sort: the Dists in an order that puts every package after
\* its dependencies.
IsDependencyOrder(s) ==
    \A a, b \in DOMAIN s :
        name_dist(s[a]) \in Depends(name_dist(s[b])) => a < b

Orderings(s) ==
    {t \in [DOMAIN s -> Range(s)] : Range(t) = Range(s)}

\* A line of info['packages'], as url_pat splits it: the groups url, fn and
\* md5; kind "skip" is a blank or comment line, "nomatch" a line url_pat
\* does not match.
Line(url, fn, md5) == [kind |-> "pkg", url |-> url, fn |-> fn, md5 |-> md5]

SkipLine == [kind |-> "skip", url |-> NoUrl, fn |-> <<>>, md5 |-> NoMd5]

NoMatchLine == [kind |-> "nomatch", url |-> NoUrl, fn |-> <<>>, md5 |-> NoMd5]

PackagePool ==
    {<<>>,
     <<Line(NoUrl, <<"f", "o", "o", "-", "1", "-", "0">>, NoMd5)>>,
     <<SkipLine, Line(NoUrl, <<"n", "u", "m", "p", "y", "=", "2", "=", "0">>, NoMd5)>>,
     <<Line(LocalUrl, python_2, Md5(python_2))>>,
     <<Line(NoUrl, foo_1, Stale)>>,
     <<Line(LocalUrl, foo_1, NoMd5), Line(NoUrl, zlib_1, Md5(zlib_1))>>,
     <<Line(NoUrl, <<"f", "o", "o", "-", "1">>, NoMd5)>>,
     <<Line(NoUrl, foo_1, NoMd5), NoMatchLine>>,
     <<Line(LocalUrl, python_2, NoMd5), Line(LocalUrl, foo_conda, NoMd5)>>,
     <<Line(NoUrl, foo_1, NoMd5), SkipLine, Line(NoUrl, numpy_2, NoMd5)>>}

PackageLists ==
    {p \in PackagePool : Len(p) <= MaxPackages}

ExcludePool ==
    {<<>>,
     <<<<"n", "u", "m", "p", "y">>>>,
     <<<<"f", "o", "o">>>>,
     <<<<"z", "l", "i", "b">>, <<"n", "u", "m", "p", "y">>>>,
     <<<<"n", "u", "m", "p", "y">>, <<"n", "u", "*">>>>,
     <<Python>>,
     <<<<"n", "u", "m", "p", "y">>, Python, <<"z", "l", "i", "b">>>>}

ExcludeLists ==
    {x \in ExcludePool : Len(x) <= MaxExclude}

\* The download directory before the build.
Caches ==
    {EmptyMap,
     (python_3 :> Md5(python_3)),
     (python_3 :> Stale) @@ (zlib_1 :> Md5(zlib_1)),
     (foo_1 :> Md5(foo_1)) @@ (python_2 :> Md5(python_2))}

Infos ==
    [channels : BOOLEAN,
     specs : BOOLEAN,
     install_in_dependency_order : {"absent", "False", "True"},
     exclude : ExcludeLists,
     packages : PackageLists,
     dry_run : BOOLEAN]

(***************************************************************************)
(* Python ints as decimal numbers: <<9, 1>> is 19.                         *)
(***************************************************************************)
RECURSIVE DecOfNat(_)
DecOfNat(n) == IF n < 10 THEN <<n>> ELSE <<n % 10>> \o DecOfNat(n \div 10)

RECURSIVE AddCarry(_, _, _)
AddCarry(a, b, c) ==
    IF a = <<>> /\ b = <<>>
    THEN IF c = 0 THEN <<>> ELSE <<c>>
    ELSE LET x == IF a = <<>> THEN 0 ELSE Head(a)
             y == IF b = <<>> THEN 0 ELSE Head(b)
             s == x + y + c
         IN <<s % 10>> \o AddCarry(IF a = <<>> THEN a ELSE Tail(a),
                                   IF b = <<>> THEN b ELSE Tail(b),
                                   s \div 10)

DecAdd(a, b) == AddCarry(a, b, 0)

Pow10(k) == [i \in 1..(k + 1) |-> IF i = k + 1 THEN 1 ELSE 0]

Reverse(s) == [i \in 1..Len(s) |-> s[Len(s) + 1 - i]]

RECURSIVE DecLess(_, _)
DecLess(a, b) ==
    IF Len(a) # Len(b) THEN Len(a) < Len(b)
    ELSE IF a = <<>> THEN FALSE
    ELSE LET n == Len(a)
         IN IF a[n] # b[n] THEN a[n] < b[n]
            ELSE DecLess(SubSeq(a, 1, n - 1), SubSeq(b, 1, n - 1))

\* str(n): the decimal digits, most significant first, no padding.
PyStr(n) == Reverse(n)

\* '%0<width>d' % n: zero-padded to at least width digits, never truncated.
ZeroPad(width, n) ==
    IF Len(n) >= width THEN Reverse(n)
    ELSE [i \in 1..(width - Len(n)) |-> 0] \o Reverse(n)

(***************************************************************************)
(* Header text: a sequence of tokens.  A token is a run of literal text    *)
(* (its length in characters and in UTF-8 bytes), a placeholder, or the    *)
(* digits a placeholder was replaced with.                                 *)
(***************************************************************************)
Lit(c, b) == [kind |-> "lit", name |-> "", chars |-> c, bytes |-> b, text |-> <<>>]

Ph(s) == [kind |-> "ph", name |-> s, chars |-> Len(s), bytes |-> Len(s), text |-> <<>>]

Digits(s, t) == [kind |-> "num", name |-> s, chars |-> Len(t), bytes |-> Len(t), text |-> t]

RECURSIVE CharLen(_)
CharLen(d) == IF d = <<>> THEN 0 ELSE Head(d).chars + CharLen(Tail(d))

RECURSIVE ByteLen(_)
ByteLen(d) == IF d = <<>> THEN 0 ELSE Head(d).bytes + ByteLen(Tail(d))

\* data.replace(placeholder, text)
Replace(d, s, t) ==
    [i \in DOMAIN d |-> IF d[i].kind = "ph" /\ d[i].name = s THEN Digits(s, t) ELSE d[i]]

\* The product names a configuration may carry: ASCII, or with one
\* two-byte character.
Names == {Lit(4, 4), Lit(4, 5)}

\* header.sh: shell text, the product name and the numeric placeholders;
\* k occurrences of the total-size placeholder.
Template(k) ==
    <<Lit(TemplateTextLen, TemplateTextLen), Ph("__NAME__"),
      Ph("@FIRST_PAYLOAD_SIZE@"), Ph("@NON_PAYLOAD_SIZE@"),
      Ph("@PAYLOAD_OFFSET_BYTES@"), Ph("@TARBALL_SIZE_BYTES@")>>
    \o [i \in 1..k |-> Ph("@TOTAL_SIZE_BYTES@")]

\* fill_template: __NAME__ becomes the product name.
FillTemplate(d, name) ==
    [i \in DOMAIN d |-> IF d[i].kind = "ph" /\ d[i].name = "__NAME__" THEN name ELSE d[i]]

\* get_header, lines 31-63: the header after content substitution.
ContentData(cfg) == FillTemplate(cfg.template, cfg.name)

\* get_header, lines 69-78: the numeric substitutions and the assertion.
\* Returns the local `data` at line 78 and whether the assertion passes.
get_header(exec, tar, cfg) ==
    LET d0 == ContentData(cfg)
        d1 == Replace(d0, "@FIRST_PAYLOAD_SIZE@", ZeroPad(20, exec))
        d2 == Replace(d1, "@NON_PAYLOAD_SIZE@", ZeroPad(18, DecOfNat(CharLen(d1))))
        payload_offset == DecAdd(DecOfNat(CharLen(d2)), exec)
        n == DecAdd(payload_offset, tar)
        d3 == Replace(d2, "@TOTAL_SIZE_BYTES@", PyStr(n))
        d4 == Replace(d3, "@PAYLOAD_OFFSET_BYTES@", ZeroPad(22, payload_offset))
        d5 == Replace(d4, "@TARBALL_SIZE_BYTES@", ZeroPad(20, tar))
    IN [data |-> d5,
        ok |-> DecAdd(DecAdd(DecOfNat(CharLen(d5)), exec), tar) = n]

(***************************************************************************)
(* create, lines 168-183: render the header, then write header,            *)
(* executable and tarball to the output path.                              *)
(***************************************************************************)
ChunkSize == 262144

Sizes ==
    {DecOfNat(0), DecOfNat(1), DecOfNat(ChunkSize + 1),
     Pow10(17), Pow10(19), Pow10(20)}

Absent == [kind |-> "absent", header |-> <<>>, exe |-> <<0>>, tar |-> <<0>>, executable |-> FALSE]

\* A file left at the output path by something else (an earlier build).
Old(x) == [kind |-> "old", header |-> <<>>, exe |-> <<0>>, tar |-> <<0>>, executable |-> x]

\* main() is not running.
FcpIdle ==
    /\ pc = "idle"
    /\ status = "done"
    /\ err = NoErr
    /\ info = [channels |-> FALSE]
    /\ dists = <<>>
    /\ index = EmptyMap
    /\ urls = EmptyMap
    /\ md5s = EmptyMap
    /\ cache = EmptyMap
    /\ di = 1
    /\ info_urls = <<>>
    /\ io = <<>>
    /\ build = 0

\* ./repodata.json before add_repodata wrote it.
NoDocument == [subdir |-> "", packages |-> {}, packages_conda |-> {}]

\* create() is not assembling a master tarball.
StageIdle ==
    /\ stagePc = "idle"
    /\ stageErr = NoErr
    /\ ui = 1
    /\ tmp_tar = {}
    /\ local_subdir_repodata = <<>>
    /\ repodata_json = NoDocument

SharInit ==
    /\ FcpIdle
    /\ StageIdle
    /\ renders = <<>>
    /\ sharPc = "get_header"
    /\ sharInfo \in [name : Names, template : {Template(k) : k \in 0..MaxTotalOcc}]
    /\ conda_exec \in Sizes
    /\ tarball \in Sizes
    /\ data = <<>>
    /\ header = <<>>
    /\ shar \in {Absent, Old(TRUE), Old(FALSE)}

\* line 169
GetHeader ==
    /\ sharPc = "get_header"
    /\ LET r == get_header(conda_exec, tarball, sharInfo)
       IN /\ data' = r.data
          /\ IF r.ok
             THEN header' = r.data /\ sharPc' = "open"
             ELSE header' = header /\ sharPc' = "failed"
    /\ UNCHANGED <<sharInfo, conda_exec, tarball, shar, fcpVars, renders, stageVars>>

\* line 171: open(shar_path, 'wb') creates the file or truncates the one
\* there, which keeps its permission bits.
OpenOutput ==
    /\ sharPc = "open"
    /\ shar' = [kind |-> "new", header |-> <<>>, exe |-> <<0>>, tar |-> <<0>>,
                executable |-> shar.executable]
    /\ sharPc' = "write_header"
    /\ UNCHANGED <<sharInfo, conda_exec, tarball, data, header, fcpVars, renders, stageVars>>

\* line 172
WriteHeader ==
    /\ sharPc = "write_header"
    /\ shar' = [shar EXCEPT !.header = header]
    /\ sharPc' = "copy_exec"
    /\ UNCHANGED <<sharInfo, conda_exec, tarball, data, header, fcpVars, renders, stageVars>>

\* lines 174-179 for one payload: the chunked copy runs to the end of the
\* payload ...
CopyAll(field, size, next) ==
    /\ shar' = [shar EXCEPT ![field] = size]
    /\ sharPc' = next

\* ... or an I/O error ends the build after k whole chunks were written.
CopyAborts(field, size) ==
    \E k \in 0..MaxChunks :
        /\ DecLess(DecOfNat(k * ChunkSize), size)
        /\ shar' = [shar EXCEPT ![field] = DecOfNat(k * ChunkSize)]
        /\ sharPc' = "failed"

CopyExec ==
    /\ sharPc = "copy_exec"
    /\ \/ CopyAll("exe", conda_exec, "copy_tar")
       \/ CopyAborts("exe", conda_exec)
    /\ UNCHANGED <<sharInfo, conda_exec, tarball, data, header, fcpVars, renders, stageVars>>

CopyTarball ==
    /\ sharPc = "copy_tar"
    /\ \/ CopyAll("tar", tarball, "finish")
       \/ CopyAborts("tar", tarball)
    /\ UNCHANGED <<sharInfo, conda_exec, tarball, data, header, fcpVars, renders, stageVars>>

\* lines 181-183
Finish ==
    /\ sharPc = "finish"
    /\ shar' = [shar EXCEPT !.executable = TRUE]
    /\ sharPc' = "done"
    /\ UNCHANGED <<sharInfo, conda_exec, tarball, data, header, fcpVars, renders, stageVars>>

SharNext ==
    \/ GetHeader
    \/ OpenOutput
    \/ WriteHeader
    \/ CopyExec
    \/ CopyTarball
    \/ Finish

SpecShar == SharInit /\ [][SharNext]_vars

\* The byte length of the file at the output path.
FileSize(f) == DecAdd(DecAdd(DecOfNat(ByteLen(f.header)), f.exe), f.tar)

\* The file is the whole installer, marked executable.
Complete(f) ==
    /\ f.kind = "new"
    /\ f.header = header /\ header # <<>>
    /\ f.exe = conda_exec
    /\ f.tar = tarball
    /\ f.executable

\* The number a digit text denotes (what the installer's shell reads back).
RECURSIVE StripZeros(_)
StripZeros(t) ==
    IF Len(t) > 1 /\ Head(t) = 0 THEN StripZeros(Tail(t)) ELSE t

DecOfText(t) == Reverse(StripZeros(t))

\* The values a field of the header text carries.
Embedded(d, s) == {DecOfText(d[i].text) : i \in {j \in DOMAIN d : d[j].kind = "num" /\ d[j].name = s}}

RemoveAt(s, k) == SubSeq(s, 1, k - 1) \o SubSeq(s, k + 1, Len(s))

SetMin(S) == CHOOSE x \in S : \A y \in S : x <= y

\* exclude_packages, line 75: the characters a name may not contain.
BadChars == {" ", "=", "<", ">", "*"}

(***************************************************************************)
(* Variants of the code, each with one plausible defect.                   *)
(***************************************************************************)
\* check_duplicates that reports a name only when it is listed three times.
check_duplicates_MoreThanTwo(d) ==
    IF \E a, b, c \in DOMAIN d :
          a < b /\ b < c /\ name_dist(d[a]) = name_dist(d[b])
                /\ name_dist(d[b]) = name_dist(d[c])
    THEN "listed multiple times"
    ELSE NoErr

\* exclude_packages without the for-else: a name that matches nothing is
\* passed over.
ExcludeOne_NoElse(d, name) ==
    IF \E c \in BadChars : c \in Range(name)
    THEN [dists |-> d, err |-> "TypeError"]
    ELSE LET M == {k \in DOMAIN d : name_dist(d[k]) = name}
         IN IF M = {}
            THEN [dists |-> d, err |-> NoErr]
            ELSE [dists |-> RemoveAt(d, SetMin(M)), err |-> NoErr]

\* check_dists without the assertion on the first entry.
check_dists_NoAssert(d) ==
    IF Len(d) = 0 THEN "no packages specified"
    ELSE IF \E a, b \in DOMAIN d : a < b /\ name_dist(d[a]) = name_dist(d[b])
    THEN "listed multiple times"
    ELSE NoErr

\* fetch that tests only isfile(path), not the content hash.
CacheHit_IsFileOnly(c, fn, pkginfo) == fn \in DOMAIN c

\* main that merges the explicit packages before it applies the exclusions.
MainOrder_MergeFirst ==
    <<"fetch_index", "resolve", "packages", "exclude", "finalize",
      "fetch_begin", "fetch", "end">>

(***************************************************************************)
(* fcp.py: the operations on the working set.                              *)
(***************************************************************************)
\* list.sort() on filenames
RECURSIVE Insert(_, _)
Insert(x, s) ==
    IF s = <<>> THEN <<x>>
    ELSE IF StrLess(x, Head(s)) THEN <<x>> \o s
    ELSE <<Head(s)>> \o Insert(x, Tail(s))

RECURSIVE Sort(_)
Sort(s) == IF s = <<>> THEN s ELSE Insert(Head(s), Sort(Tail(s)))

\* check_duplicates: some name maps to more than one filename.
check_duplicates(d) ==
    IF \E a, b \in DOMAIN d : a < b /\ name_dist(d[a]) = name_dist(d[b])
    THEN "listed multiple times"
    ELSE NoErr

\* exclude_packages, lines 75-85, for one name.
ExcludeOne(d, name) ==
    IF \E c \in BadChars : c \in Range(name)
    THEN [dists |-> d, err |-> "TypeError"]
    ELSE LET M == {k \in DOMAIN d : name_dist(d[k]) = name}
         IN IF M = {}
            THEN [dists |-> d, err |-> "no package named"]
            ELSE [dists |-> RemoveAt(d, SetMin(M)), err |-> NoErr]

RECURSIVE ExcludeAll(_, _)
ExcludeAll(d, names) ==
    IF names = <<>> THEN [dists |-> d, err |-> NoErr]
    ELSE LET r == ExcludeOne(d, Head(names))
         IN IF r.err # NoErr THEN r ELSE ExcludeAll(r.dists, Tail(names))

\* exclude_packages
exclude_packages(d, names) ==
    IF check_duplicates(d) # NoErr
    THEN [dists |-> d, err |-> check_duplicates(d)]
    ELSE ExcludeAll(d, names)

\* parse_packages, lines 102-105: the filename a matched line yields.
ParsedFilename(fn) ==
    LET f == ReplaceChar(fn, "=", "-")
    IN IF EndsWith(f, TarBz2) THEN f ELSE f \o TarBz2

\* handle_packages, lines 110-121, for one line of info['packages'].
HandleOne(st, line, idx) ==
    IF line.kind = "skip" THEN st
    ELSE IF line.kind = "nomatch" THEN [st EXCEPT !.err = "Could not parse"]
    ELSE LET fn == ParsedFilename(line.fn)
         IN IF Count(fn, "-") < 2
            THEN [st EXCEPT !.err = "Not a valid conda package filename"]
            ELSE LET st1 == [st EXCEPT !.dists = Append(@, fn),
                                       !.md5s = (fn :> line.md5) @@ @]
                 IN IF line.url # NoUrl
                    THEN [st1 EXCEPT !.urls = (fn :> line.url) @@ @]
                    ELSE IF fn \in DOMAIN idx
                    THEN [st1 EXCEPT !.urls = (fn :> idx[fn].channel) @@ @]
                    ELSE [st1 EXCEPT !.err = "did not find in any channels"]

RECURSIVE handle_packages(_, _, _)
handle_packages(st, lines, idx) ==
    IF lines = <<>> \/ st.err # NoErr THEN st
    ELSE handle_packages(HandleOne(st, Head(lines), idx), Tail(lines), idx)

\* move_python_first
move_python_first(d) ==
    LET M == {k \in DOMAIN d : name_dist(d[k]) = Python}
    IN IF M = {} THEN d
       ELSE <<d[SetMin(M)]>> \o RemoveAt(d, SetMin(M))

\* check_dists
check_dists(d) ==
    IF Len(d) = 0 THEN "no packages specified"
    ELSE IF check_duplicates(d) # NoErr THEN check_duplicates(d)
    ELSE IF name_dist(d[1]) # Python THEN "AssertionError"
    ELSE NoErr

\* fetch, line 184: the cached file is there and has the record's checksum.
CacheHit(c, fn, pkginfo) == fn \in DOMAIN c /\ c[fn] = pkginfo.md5

\* fetch, line 180: the inline checksum disagrees with the record's.
Md5Mismatch(md5, pkginfo) == md5 # NoMd5 /\ md5 # pkginfo.md5

\* fetch, lines 175-176
WithSlash(channel) ==
    IF channel = "https://repo/linux-64" THEN "https://repo/linux-64/" ELSE channel

(***************************************************************************)
(* fcp.py: main, step by step.                                             *)
(***************************************************************************)
\* The order in which main() runs its steps.
MainOrder ==
    <<"fetch_index", "resolve", "exclude", "packages", "finalize",
      "fetch_begin", "fetch", "end">>

After(p) == MainOrder[(CHOOSE k \in DOMAIN MainOrder : MainOrder[k] = p) + 1]

At(p) == pc = p /\ status = "running"

Fail(e) == status' = "failed" /\ err' = e /\ pc' = pc

Go == status' = status /\ err' = err /\ pc' = After(pc)

SharIdle ==
    /\ sharPc = "idle"
    /\ sharInfo = [name |-> Lit(0, 0), template |-> <<>>]
    /\ conda_exec = <<0>>
    /\ tarball = <<0>>
    /\ data = <<>>
    /\ header = <<>>
    /\ shar = Absent
    /\ renders = <<>>

Init ==
    /\ pc = "fetch_index"
    /\ status = "running"
    /\ err = NoErr
    /\ info \in Infos
    /\ dists = <<>>
    /\ index = EmptyMap
    /\ urls = EmptyMap
    /\ md5s = EmptyMap
    /\ cache \in Caches
    /\ di = 1
    /\ info_urls = <<>>
    /\ io = <<>>
    /\ build = 1
    /\ SharIdle
    /\ StageIdle

\* main, lines 191-202
FetchIndex ==
    /\ At("fetch_index")
    /\ IF info.channels
       THEN /\ index' = ChannelIndex
            /\ io' = Append(io, [op |-> "fetch_index", fn |-> <<>>])
       ELSE UNCHANGED <<index, io>>
    /\ Go
    /\ UNCHANGED <<info, dists, urls, md5s, cache, di, info_urls, sharVars, stageVars, build>>

\* A resolve that never calls graph_sort.
Resolved_NoGraphSort(res) == {res}

\* resolve, lines 54-58: what is appended to dists for the solution res.
Resolved(res) ==
    IF info.install_in_dependency_order # "absent"
    THEN {[k \in DOMAIN t |-> SubSeq(t[k], 1, Len(t[k]) - 8) \o TarBz2] :
            t \in {o \in Orderings(res) : IsDependencyOrder(o)}}
    ELSE {res}

\* main, lines 204-205, and resolve
Resolve ==
    /\ At("resolve")
    /\ IF ~info.specs
       THEN Go /\ dists' = dists
       ELSE IF DOMAIN index = {}
       THEN Fail("index is empty") /\ dists' = dists
       ELSE \/ Fail("NoPackagesFound") /\ dists' = dists
            \/ \E res \in Solutions : \E r \in Resolved(res) :
                  Go /\ dists' = dists \o r
    /\ UNCHANGED <<info, index, urls, md5s, cache, di, info_urls, io, sharVars, stageVars, build>>

\* main, line 206
ExcludePackages ==
    /\ At("exclude")
    /\ LET r == exclude_packages(dists, info.exclude)
       IN /\ dists' = r.dists
          /\ IF r.err # NoErr THEN Fail(r.err) ELSE Go
    /\ UNCHANGED <<info, index, urls, md5s, cache, di, info_urls, io, sharVars, stageVars, build>>

\* A main that fetches each explicit package as soon as it is merged.
HandlePackages_FetchWhileMerging ==
    /\ At("packages")
    /\ LET r == handle_packages([dists |-> dists, urls |-> urls, md5s |-> md5s,
                                 err |-> NoErr], info.packages, index)
       IN /\ dists' = r.dists
          /\ urls' = r.urls
          /\ md5s' = r.md5s
          /\ io' = io \o [k \in 1..(Len(r.dists) - Len(dists)) |->
                            [op |-> "fetch_pkg", fn |-> r.dists[Len(dists) + k]]]
          /\ IF r.err # NoErr THEN Fail(r.err) ELSE Go
    /\ UNCHANGED <<info, index, cache, di, info_urls, sharVars, stageVars, build>>

\* main, lines 207-208
HandlePackages ==
    /\ At("packages")
    /\ LET r == handle_packages([dists |-> dists, urls |-> urls, md5s |-> md5s,
                                 err |-> NoErr], info.packages, index)
       IN /\ dists' = r.dists
          /\ urls' = r.urls
          /\ md5s' = r.md5s
          /\ IF r.err # NoErr THEN Fail(r.err) ELSE Go
    /\ UNCHANGED <<info, index, cache, di, info_urls, io, sharVars, stageVars, build>>

\* A main that sorts only when the ordering key is absent, as resolve
\* tests it.
Ordered_KeyAbsent(d) ==
    move_python_first(IF info.install_in_dependency_order = "absent" THEN Sort(d) ELSE d)

\* main, lines 210-223: order the set, validate it, stop on a dry run.
Ordered(d) ==
    move_python_first(IF info.install_in_dependency_order # "True" THEN Sort(d) ELSE d)

\* A main that sorts only after python was moved and the set was checked.
Finalize_SortLast ==
    /\ At("finalize")
    /\ dists' = IF info.install_in_dependency_order # "True"
                THEN Sort(move_python_first(dists))
                ELSE move_python_first(dists)
    /\ IF check_dists(move_python_first(dists)) # NoErr
       THEN Fail(check_dists(move_python_first(dists)))
       ELSE /\ pc' = After(pc)
            /\ err' = err
            /\ status' = IF info.dry_run THEN "done" ELSE status
    /\ UNCHANGED <<info, index, urls, md5s, cache, di, info_urls, io, sharVars, stageVars, build>>

Finalize ==
    /\ At("finalize")
    /\ dists' = Ordered(dists)
    /\ IF check_dists(dists') # NoErr
       THEN Fail(check_dists(dists'))
       ELSE /\ pc' = After(pc)
            /\ err' = err
            /\ status' = IF info.dry_run THEN "done" ELSE status
    /\ UNCHANGED <<info, index, urls, md5s, cache, di, info_urls, io, sharVars, stageVars, build>>

\* fetch, lines 152-160
FetchBegin ==
    /\ At("fetch_begin")
    /\ info_urls' = <<>>
    /\ di' = 1
    /\ Go
    /\ UNCHANGED <<info, dists, index, urls, md5s, cache, io, sharVars, stageVars, build>>

\* fetch, lines 161-187: one iteration of the loop over dists.
Lookup(dist) ==
    LET url == IF dist \in DOMAIN urls THEN urls[dist] ELSE NoUrl
        src == IF url # NoUrl THEN UrlIndex(url) ELSE index
    IN [url |-> url,
        found |-> dist \in DOMAIN src,
        pkginfo |-> IF dist \in DOMAIN src THEN src[dist]
                    ELSE [channel |-> NoUrl, md5 |-> NoMd5]]

\* line 167: the one-off index fetch for a Dist with a URL.
IndexFetched(l) ==
    IF l.url # NoUrl THEN Append(io, [op |-> "fetch_index", fn |-> <<>>]) ELSE io

\* line 178
RecordUrl(l, fn) ==
    info_urls' = Append(info_urls, [channel |-> WithSlash(l.pkginfo.channel),
                                    fn |-> fn, md5 |-> l.pkginfo.md5])

\* sys.exit inside the loop
FetchFails(e, io1) == Fail(e) /\ io' = io1 /\ UNCHANGED <<cache, di>>

\* line 185: continue
CacheUsed(io1) == di' = di + 1 /\ io' = io1 /\ UNCHANGED <<cache, pc, status, err>>

\* lines 186-187: fetch_pkg writes the artifact into the download
\* directory, or raises.
Download(l, fn, io1) ==
    /\ io' = Append(io1, [op |-> "fetch_pkg", fn |-> fn])
    /\ \/ /\ cache' = (fn :> l.pkginfo.md5) @@ cache
          /\ di' = di + 1
          /\ UNCHANGED <<pc, status, err>>
       \/ /\ Fail("fetch_pkg failed")
          /\ UNCHANGED <<cache, di>>

InlineMd5(dist) == IF dist \in DOMAIN md5s THEN md5s[dist] ELSE NoMd5

\* A loop body that compares the checksums only after the artifact was
\* fetched.
FetchDist_CheckAfterFetch ==
    /\ At("fetch")
    /\ di <= Len(dists)
    /\ LET dist == dists[di]
           fn == filename_dist(dist)
           l == Lookup(dist)
       IN IF ~l.found
          THEN /\ FetchFails(IF l.url # NoUrl THEN "no package in url" ELSE "KeyError",
                             IndexFetched(l))
               /\ UNCHANGED info_urls
          ELSE /\ RecordUrl(l, fn)
               /\ IF CacheHit(cache, fn, l.pkginfo)
                  THEN IF Md5Mismatch(InlineMd5(dist), l.pkginfo)
                       THEN FetchFails("MD5 mismatch", IndexFetched(l))
                       ELSE CacheUsed(IndexFetched(l))
                  ELSE IF Md5Mismatch(InlineMd5(dist), l.pkginfo)
                       THEN /\ Fail("MD5 mismatch")
                            /\ io' = Append(IndexFetched(l), [op |-> "fetch_pkg", fn |-> fn])
                            /\ cache' = (fn :> l.pkginfo.md5) @@ cache
                            /\ UNCHANGED di
                       ELSE Download(l, fn, IndexFetched(l))
    /\ UNCHANGED <<info, dists, index, urls, md5s, sharVars, stageVars, build>>

\* A loop body that records the pair only after the cache test, so that a
\* cache hit continues without recording it.
FetchDist_RecordAfterCacheTest ==
    /\ At("fetch")
    /\ di <= Len(dists)
    /\ LET dist == dists[di]
           fn == filename_dist(dist)
           l == Lookup(dist)
       IN IF ~l.found
          THEN /\ FetchFails(IF l.url # NoUrl THEN "no package in url" ELSE "KeyError",
                             IndexFetched(l))
               /\ UNCHANGED info_urls
          ELSE IF Md5Mismatch(InlineMd5(dist), l.pkginfo)
          THEN FetchFails("MD5 mismatch", IndexFetched(l)) /\ UNCHANGED info_urls
          ELSE IF CacheHit(cache, fn, l.pkginfo)
          THEN CacheUsed(IndexFetched(l)) /\ UNCHANGED info_urls
          ELSE RecordUrl(l, fn) /\ Download(l, fn, IndexFetched(l))
    /\ UNCHANGED <<info, dists, index, urls, md5s, sharVars, stageVars, build>>

FetchDist ==
    /\ At("fetch")
    /\ di <= Len(dists)
    /\ LET dist == dists[di]
           fn == filename_dist(dist)
           l == Lookup(dist)
       IN IF ~l.found
          THEN /\ FetchFails(IF l.url # NoUrl THEN "no package in url" ELSE "KeyError",
                             IndexFetched(l))
               /\ UNCHANGED info_urls
          ELSE /\ RecordUrl(l, fn)
               /\ IF Md5Mismatch(InlineMd5(dist), l.pkginfo)
                  THEN FetchFails("MD5 mismatch", IndexFetched(l))
                  ELSE IF CacheHit(cache, fn, l.pkginfo)
                  THEN CacheUsed(IndexFetched(l))
                  ELSE Download(l, fn, IndexFetched(l))
    /\ UNCHANGED <<info, dists, index, urls, md5s, sharVars, stageVars, build>>

\* fetch returns; main, line 226
FetchEnd ==
    /\ At("fetch")
    /\ di > Len(dists)
    /\ pc' = After(pc)
    /\ status' = "done"
    /\ UNCHANGED <<err, info, dists, index, urls, md5s, cache, di, info_urls, io, sharVars, stageVars, build>>

Next ==
    \/ FetchIndex
    \/ Resolve
    \/ ExcludePackages
    \/ HandlePackages
    \/ Finalize
    \/ FetchBegin
    \/ FetchDist
    \/ FetchEnd

Spec == Init /\ [][Next]_vars

(***************************************************************************)
(* fcp.py: main() called again in the same process.  dists, index, urls    *)
(* and md5s are module globals (lines 28-31): a call finds in them what    *)
(* the call before left there.                                             *)
(***************************************************************************)
\* The configurations of the builds that run one after the other.
RepeatInfos ==
    {i \in Infos :
        /\ i.exclude = <<>>
        /\ i.install_in_dependency_order = "absent"
        /\ i.packages \in {<<>>, <<Line(LocalUrl, python_2, Md5(python_2))>>}}

RepeatInit == Init /\ info \in RepeatInfos

\* main() has returned (line 223 or line 226) and is called with the next
\* configuration; nothing resets the module globals.
MainAgain ==
    /\ status = "done"
    /\ build < MaxBuilds
    /\ build' = build + 1
    /\ info' \in RepeatInfos
    /\ pc' = "fetch_index"
    /\ status' = "running"
    /\ err' = NoErr
    /\ di' = 1
    /\ info_urls' = <<>>
    /\ UNCHANGED <<dists, index, urls, md5s, cache, io, sharVars, stageVars>>

RepeatNext ==
    \/ FetchIndex
    \/ Resolve
    \/ ExcludePackages
    \/ HandlePackages
    \/ Finalize
    \/ FetchBegin
    \/ FetchDist
    \/ FetchEnd
    \/ MainAgain

SpecRepeat == RepeatInit /\ [][RepeatNext]_vars

(***************************************************************************)
(* shar.py: create, lines 131-166: the master tarball tmp.tar, with the    *)
(* artifacts, the locally sourced artifacts under conda-bld/<subdir>/ and  *)
(* the repodata documents.  A member is its archive name (directory and    *)
(* filename) and, for a repodata document, its content.                    *)
(***************************************************************************)
MaxUrls == 3           \* entries of info['_urls']

RemoteChannel == "https://repo/linux-64/"

LocalNoarch == LocalUrl

LocalLinux == "file:///bld/linux-64/"

\* line 143: url.startswith('file://')
IsLocal(channel) == channel \in {LocalNoarch, LocalLinux}

\* line 144: url.rsplit('/', 2)[1] for url = channel + fn, fn without '/'
Subdir(channel) ==
    IF channel = LocalNoarch THEN "noarch" ELSE "linux-64"

Subdirs == {"noarch", "linux-64"}

numpy_conda == <<"n", "u", "m", "p", "y", "-", "1", "-", "0">> \o DotConda

bar_1 == <<"b", "a", "r", "-", "1", "-", "0">> \o TarBz2

\* line 147-148: the channel's repodata.json, by section: the filenames
\* that have an entry.  A channel serves more than the build takes.
Upstream(channel) ==
    IF channel = LocalNoarch
    THEN [packages |-> {python_2, foo_1, bar_1}, packages_conda |-> {numpy_conda}]
    ELSE [packages |-> {zlib_1, bar_1}, packages_conda |-> {}]

Pair(channel, fn) == [channel |-> channel, fn |-> fn, md5 |-> Md5(fn)]

\* info['_urls'] as fetch leaves it: one pair per Dist, python first, no
\* package name twice.
UrlPool ==
    {Pair(RemoteChannel, python_3), Pair(LocalNoarch, python_2),
     Pair(LocalNoarch, foo_1), Pair(LocalLinux, zlib_1),
     Pair(LocalNoarch, numpy_conda), Pair(RemoteChannel, numpy_1),
     Pair(RemoteChannel, zlib_1)}

UrlLists ==
    UNION {{u \in [1..n -> UrlPool] :
              /\ name_dist(u[1].fn) = Python
              /\ \A a, b \in 1..n : a # b => name_dist(u[a].fn) # name_dist(u[b].fn)} :
           n \in 1..MaxUrls}

Member(dir, fn, content) == [dir |-> dir, fn |-> fn, content |-> content]

RepodataJson == <<"repodata.json">>

NoSections == [packages |-> {}, packages_conda |-> {}]

\* main() and fetch() have returned: info['_dists'], info['_urls'] and the
\* download directory are as fetch left them.
StageInit ==
    /\ \E u \in UrlLists :
          /\ info_urls = u
          /\ dists = [k \in DOMAIN u |-> u[k].fn]
          /\ cache = [fn \in {u[k].fn : k \in DOMAIN u} |-> Md5(fn)]
          /\ di = Len(u) + 1
    /\ pc = "end"
    /\ status = "done"
    /\ err = NoErr
    /\ info = [channels |-> FALSE]
    /\ index = EmptyMap
    /\ urls = EmptyMap
    /\ md5s = EmptyMap
    /\ io = <<>>
    /\ build = 1
    /\ SharIdle
    /\ stagePc = "tar"
    /\ stageErr = NoErr
    /\ ui = 1
    /\ tmp_tar = {}
    /\ local_subdir_repodata = <<>>
    /\ repodata_json = NoDocument

\* lines 131-139: the staged tarballs and every fetched artifact
OpenTarball ==
    /\ stagePc = "tar"
    /\ tmp_tar' = {Member(<<>>, <<"preconda.tar.bz2">>, NoDocument),
                   Member(<<>>, <<"postconda.tar.bz2">>, NoDocument)}
                  \cup {Member(<<"pkgs">>, filename_dist(dists[k]), NoDocument) :
                          k \in DOMAIN dists}
    /\ stagePc' = "urls"
    /\ UNCHANGED <<stageErr, ui, local_subdir_repodata, repodata_json, fcpVars, sharVars>>

\* lines 149-157: the entry of fn joins the sections kept for its subdir.
AddEntry(lsr, subdir, fn) ==
    LET local_dir == IF subdir \in DOMAIN lsr THEN lsr[subdir] ELSE NoSections
        added == IF EndsWith(fn, DotConda)
                 THEN [local_dir EXCEPT !.packages_conda = @ \cup {fn}]
                 ELSE [local_dir EXCEPT !.packages = @ \cup {fn}]
    IN [s \in DOMAIN lsr \cup {subdir} |-> IF s = subdir THEN added ELSE lsr[s]]

\* lines 142-157: one iteration of the loop over info['_urls']
AddLocal ==
    /\ stagePc = "urls"
    /\ ui <= Len(info_urls)
    /\ LET url == info_urls[ui]
           subdir == Subdir(url.channel)
           found == IF EndsWith(url.fn, DotConda)
                    THEN url.fn \in Upstream(url.channel).packages_conda
                    ELSE url.fn \in Upstream(url.channel).packages
       IN IF ~IsLocal(url.channel)
          THEN /\ ui' = ui + 1
               /\ UNCHANGED <<tmp_tar, local_subdir_repodata, stagePc, stageErr>>
          ELSE /\ tmp_tar' = tmp_tar \cup {Member(<<"conda-bld", subdir>>, url.fn, NoDocument)}
               /\ IF found
                  THEN /\ local_subdir_repodata' =
                             AddEntry(local_subdir_repodata, subdir, url.fn)
                       /\ ui' = ui + 1
                       /\ UNCHANGED <<stagePc, stageErr>>
                  ELSE /\ stagePc' = "failed"
                       /\ stageErr' = "KeyError"
                       /\ UNCHANGED <<local_subdir_repodata, ui>>
    /\ UNCHANGED <<repodata_json, fcpVars, sharVars>>

\* add_repodata, lines 85-94: what json.dump writes to ./repodata.json
Document(fn_dict, subdir) ==
    [subdir |-> subdir, packages |-> fn_dict.packages,
     packages_conda |-> fn_dict.packages_conda]

\* lines 159-165 and add_repodata: the first call of add_repodata writes
\* ./repodata.json and then names t, which is a local of create and not
\* defined in add_repodata: NameError.  The dict gives its subdirs in its
\* own order.
AddRepodata ==
    /\ stagePc = "urls"
    /\ ui > Len(info_urls)
    /\ IF DOMAIN local_subdir_repodata # {}
       THEN \E subdir \in DOMAIN local_subdir_repodata :
               repodata_json' = Document(local_subdir_repodata[subdir], subdir)
       ELSE repodata_json' = Document(NoSections, "noarch")
    /\ stagePc' = "failed"
    /\ stageErr' = "NameError"
    /\ UNCHANGED <<ui, tmp_tar, local_subdir_repodata, fcpVars, sharVars>>

StageNext ==
    \/ OpenTarball
    \/ AddLocal
    \/ AddRepodata

SpecStage == StageInit /\ [][StageNext]_vars

(***************************************************************************)
(* shar.py: get_header called more than once in a process, with the same   *)
(* or with another tarball.                                                *)
(***************************************************************************)
MaxRenders == 2        \* calls of get_header

RenderInit ==
    /\ FcpIdle
    /\ StageIdle
    /\ sharPc = "idle"
    /\ sharInfo \in [name : Names, template : {Template(k) : k \in 0..MaxTotalOcc}]
    /\ conda_exec \in Sizes
    /\ tarball \in Sizes
    /\ data = <<>>
    /\ header = <<>>
    /\ shar = Absent
    /\ renders = <<>>

\* A get_header that keeps its install lines in a module-level list, so
\* that each call renders the lines of the calls before it once more.
Rendered_LinesKept(earlier) ==
    get_header(conda_exec, tarball,
               [sharInfo EXCEPT !.template = @ \o [i \in 1..earlier |-> Lit(1, 1)]])

\* The call of get_header that follows `earlier` calls.
Rendered(earlier) == get_header(conda_exec, tarball, sharInfo)

\* get_header(conda_exec, tarball, info), lines 31-80
Render ==
    /\ Len(renders) < MaxRenders
    /\ LET r == Rendered(Len(renders))
       IN /\ data' = r.data
          /\ renders' = Append(renders, [conda_exec |-> conda_exec, tarball |-> tarball,
                                         info |-> sharInfo, data |-> r.data, ok |-> r.ok])
    /\ UNCHANGED <<sharPc, sharInfo, conda_exec, tarball, header, shar, fcpVars, stageVars>>

\* Between two calls the tarball is assembled anew and has another size.
NewTarball ==
    /\ renders # <<>>
    /\ Len(renders) < MaxRenders
    /\ \E size \in Sizes \ {tarball} : tarball' = size
    /\ UNCHANGED <<sharPc, sharInfo, conda_exec, data, header, shar, renders,
                   fcpVars, stageVars>>

RenderNext ==
    \/ Render
    \/ NewTarball

SpecRender == RenderInit /\ [][RenderNext]_vars

(***************************************************************************)
(* Properties.                                                             *)
(***************************************************************************)
HasPython(d) == \E k \in DOMAIN d : name_dist(d[k]) = Python

NoDupNames(d) ==
    \A a, b \in DOMAIN d : a # b => name_dist(d[a]) # name_dist(d[b])

\* check_dists has returned.
Finalized == pc \in {"fetch_begin", "fetch", "end"}

\* The filenames fetch_pkg was called for.
Fetched(log) == {log[k].fn : k \in {j \in DOMAIN log : log[j].op = "fetch_pkg"}}

FetchCount(log, fn) ==
    Cardinality({j \in DOMAIN log : log[j].op = "fetch_pkg" /\ log[j].fn = fn})

\* The filenames the lines of info['packages'] name.
ExplicitFns ==
    {ParsedFilename(info.packages[k].fn) :
        k \in {j \in DOMAIN info.packages : info.packages[j].kind = "pkg"}}

C2_NumericSubstitutionsKeepLength ==
    sharPc # "get_header" => CharLen(data) = CharLen(ContentData(sharInfo))

C4_NoFetchBeforeMismatch ==
    (pc = "fetch" /\ status = "failed" /\ err = "MD5 mismatch") => Fetched(io) = {}

\* C4, amended: when fetch fails on the checksum mismatch of a Dist,
\* fetch_pkg was not called for that Dist nor for any Dist after it in the
\* package set.
C4_NoFetchFromMismatchOn ==
    (pc = "fetch" /\ status = "failed" /\ err = "MD5 mismatch") =>
        \A k \in di..Len(dists) : filename_dist(dists[k]) \notin Fetched(io)

\* C4: a build fails on a mismatch after an earlier Dist was fetched.
C4_Witness ==
    /\ pc = "fetch" /\ status = "failed" /\ err = "MD5 mismatch"
    /\ di > 1
    /\ Fetched(io) # {}

C6_UniqueNames == Finalized => NoDupNames(dists)

\* C6: a finalized set that holds resolved and explicit entries.
C6_Witness ==
    /\ Finalized
    /\ info.specs
    /\ \E k \in DOMAIN dists : dists[k] \in DOMAIN md5s
    /\ \E k \in DOMAIN dists : dists[k] \notin DOMAIN md5s

\* C7: once check_dists has returned, a python entry of the package set is
\* at index 0.
C7_PythonFirst ==
    (Finalized /\ HasPython(dists)) => name_dist(dists[1]) = Python

\* C7: a finalized set whose python entry stands before an entry that sorts
\* before it.
C7_Witness ==
    /\ Finalized
    /\ HasPython(dists)
    /\ \E k \in DOMAIN dists : k > 1 /\ StrLess(dists[k], dists[1])

\* C8, as claimed: finalization fails with the assertion only when the set
\* holds a python entry that is not at index 0, so that a non-empty,
\* duplicate-free set without python passes.
C8_AssertOnlyForMisplacedPython ==
    (pc = "finalize" /\ status = "failed" /\ err = "AssertionError") =>
        (HasPython(dists) /\ name_dist(dists[1]) # Python)

\* C8, amended: finalization fails with the empty-set error exactly when
\* the set is empty, and with the assertion exactly when the set is
\* non-empty, duplicate-free and holds no python entry; every set that
\* passes is non-empty and has python at index 0.
C8_FinalizationErrors ==
    /\ (pc = "finalize" /\ status = "failed") =>
          /\ (err = "no packages specified") <=> (dists = <<>>)
          /\ (err = "AssertionError") <=>
                (dists # <<>> /\ NoDupNames(dists) /\ ~HasPython(dists))
          /\ (err = "listed multiple times") <=> ~NoDupNames(dists)
    /\ Finalized => (dists # <<>> /\ HasPython(dists) /\ name_dist(dists[1]) = Python)

\* C8: finalization failed on a set of explicit packages without python.
C8_Witness ==
    /\ pc = "finalize" /\ status = "failed" /\ err = "AssertionError"
    /\ dists # <<>>
    /\ \A k \in DOMAIN dists : dists[k] \in DOMAIN md5s

\* C9, as claimed: the explicit packages are in the working set when the
\* exclusions are applied.
C9_ExplicitMergedBeforeExclude ==
    At("exclude") => \A fn \in ExplicitFns : fn \in Range(dists)

\* C9, amended: the order is resolve, exclude, merge explicit, order,
\* validate: no explicit package is in the working set when the exclusions
\* are applied, and no explicit package that was merged is ever removed.
C9_ExcludeBeforeMerge ==
    /\ pc \in {"fetch_index", "resolve", "exclude"} => DOMAIN md5s = {}
    /\ \A fn \in DOMAIN md5s : fn \in Range(dists)

\* C9: the build failed on an exclude name that only an explicit package
\* matches.
C9_Witness ==
    /\ pc = "exclude" /\ status = "failed" /\ err = "no package named"
    /\ \E k \in DOMAIN info.exclude :
          /\ info.exclude[k] \in {name_dist(fn) : fn \in ExplicitFns}
          /\ info.exclude[k] \notin {name_dist(d) : d \in Range(dists)}

\* C10: on a duplicate-free working set, exclude_packages removes, for each
\* name without a disallowed character that matches an entry, exactly that
\* entry, and leaves the other entries and their order as they were; a name
\* with a disallowed character or without a matching entry fails the build.
Kept(d) == name_dist(d) \notin Range(info.exclude)

C10_ExcludeExactlyOne ==
    [][(At("exclude") /\ NoDupNames(dists)) =>
        LET names == info.exclude
            good == \A k \in DOMAIN names :
                       /\ BadChars \cap Range(names[k]) = {}
                       /\ \E d \in Range(dists) : name_dist(d) = names[k]
                       /\ \A j \in 1..(k - 1) : names[j] # names[k]
        IN IF good
           THEN /\ status' = "running"
                /\ dists' = SelectSeq(dists, Kept)
                /\ Len(dists') = Len(dists) - Len(names)
           ELSE status' = "failed"
      ]_vars

\* C10: two names were excluded and an entry is left.
C10_Witness ==
    /\ At("packages")
    /\ Len(info.exclude) = 2
    /\ dists # <<>>

\* The package set a build without specs and exclusions finalizes to when
\* it is the only build of its process.
AloneExplicit ==
    Ordered(handle_packages([dists |-> <<>>, urls |-> EmptyMap, md5s |-> EmptyMap,
                             err |-> NoErr],
                            info.packages,
                            IF info.channels THEN ChannelIndex ELSE EmptyMap).dists)

\* C11: a build that runs after another build in the same process starts
\* from an empty working set, URL map and checksum map, and (shown for
\* builds of explicit packages only) finalizes to the package set it
\* finalizes to when run alone.
C11_BuildsIndependent ==
    build > 1 =>
        /\ pc = "fetch_index" =>
              (dists = <<>> /\ urls = EmptyMap /\ md5s = EmptyMap)
        /\ (Finalized /\ ~info.specs /\ info.exclude = <<>>) => dists = AloneExplicit

\* create has gone through the loop over info['_urls'] and has run the
\* repodata loop of lines 159-165.
RepodataDone == stagePc \notin {"idle", "tar", "urls"} /\ ui > Len(info_urls)

\* The repodata documents in the master tarball for a subdir.
Documents(subdir) ==
    {m \in tmp_tar : m.dir = <<"conda-bld", subdir>> /\ m.fn = RepodataJson}

\* The entries of info['_urls'] that were sourced from a file:// URL of a
\* subdir.
LocalFns(subdir) ==
    {info_urls[k].fn :
        k \in {j \in DOMAIN info_urls :
                 IsLocal(info_urls[j].channel) /\ Subdir(info_urls[j].channel) = subdir}}

\* C12: once create has run the repodata loop, the master tarball holds
\* exactly one repodata document for noarch, empty when no artifact came
\* from a local noarch URL, and a document for another subdir exactly when
\* an artifact came from a local URL of that subdir.
C12_RepodataPerSubdir ==
    RepodataDone =>
        /\ Cardinality(Documents("noarch")) = 1
        /\ LocalFns("noarch") = {} =>
              \A m \in Documents("noarch") :
                 m.content = Document(NoSections, "noarch")
        /\ \A s \in Subdirs \ {"noarch"} :
              (Documents(s) # {}) <=> (LocalFns(s) # {})

\* C14: once create has run the repodata loop, for each artifact sourced
\* from a local URL the master tarball holds the repodata document of its
\* subdir, and that document lists exactly the artifacts of this build
\* sourced locally from that subdir, the .conda ones under packages.conda
\* and the others under packages.
C14_RepodataOnlyLocalEntries ==
    RepodataDone =>
        \A s \in Subdirs :
            LocalFns(s) # {} =>
                /\ Documents(s) # {}
                /\ \A m \in Documents(s) :
                      /\ m.content.subdir = s
                      /\ m.content.packages =
                            {fn \in LocalFns(s) : ~EndsWith(fn, DotConda)}
                      /\ m.content.packages_conda =
                            {fn \in LocalFns(s) : EndsWith(fn, DotConda)}

\* The errors of the configuration: a disallowed character in an exclude
\* name (line 77 raises TypeError while it formats the message), an exclude
\* name that matches nothing, an invalid explicit filename, an unparsable
\* explicit line, an empty final set.
ConfigErrors ==
    {"TypeError", "no package named", "Not a valid conda package filename",
     "Could not parse", "no packages specified"}

\* The steps of main() before fetch().
BeforeFetch == {"fetch_index", "resolve", "exclude", "packages", "finalize"}

\* C13, as claimed: when a configuration error ends the build, no call of
\* a fetch capability, index or artifact, has been made.
C13_NoIoBeforeConfigError ==
    (status = "failed" /\ err \in ConfigErrors) => io = <<>>

\* C13, amended: up to and including the step in which an error before
\* fetch() ends the build (every configuration error is one), no artifact
\* is fetched and the download directory is not written; the only I/O is
\* the one fetch of the channel index, made first when channels are
\* configured.
C13_NoArtifactIoBeforeConfigError ==
    [][pc' \in BeforeFetch =>
          /\ cache' = cache
          /\ Fetched(io') = {}
          /\ io' = IF info.channels /\ pc' # "fetch_index"
                   THEN <<[op |-> "fetch_index", fn |-> <<>>]>>
                   ELSE <<>>
      ]_vars

\* C13: an unparsable explicit line ended the build after the channel index
\* was fetched.
C13_Witness ==
    /\ status = "failed"
    /\ err = "Could not parse"
    /\ io = <<[op |-> "fetch_index", fn |-> <<>>]>>

\* The filename the claim gives a parsed line: '=' becomes '-', and
\* '.tar.bz2' is appended unless the filename ends in .tar.bz2 or .conda.
ClaimedFilename(fn) ==
    LET f == ReplaceChar(fn, "=", "-")
    IN IF EndsWith(f, TarBz2) \/ EndsWith(f, DotConda) THEN f ELSE f \o TarBz2

\* C15: once handle_packages has returned, the filenames it recorded are
\* those of the explicit lines with every '=' replaced by '-' and with
\* '.tar.bz2' appended only to a filename without archive extension
\* (.tar.bz2 or .conda).
C15_ParsedFilenames ==
    pc \in {"finalize", "fetch_begin", "fetch", "end"} =>
        DOMAIN md5s =
            {ClaimedFilename(info.packages[k].fn) :
                k \in {j \in DOMAIN info.packages : info.packages[j].kind = "pkg"}}

RECURSIVE ExplicitSeq(_)
ExplicitSeq(lines) ==
    IF lines = <<>> THEN <<>>
    ELSE IF Head(lines).kind = "pkg"
    THEN <<ParsedFilename(Head(lines).fn)>> \o ExplicitSeq(Tail(lines))
    ELSE ExplicitSeq(Tail(lines))

\* C18, as claimed: when dependency order is requested, every entry of the
\* finalized sequence stands after all of its dependencies in the set.
C18_DependencyOrder ==
    (Finalized /\ info.install_in_dependency_order = "True") =>
        IsDependencyOrder(dists)

\* C18, amended: when dependency order is requested, the finalized
\* sequence is python at index 0, then the other resolved entries, each
\* after those of its dependencies that are among them, then the explicit
\* packages other than python in the order of their lines.
C18_PythonThenDependencyOrder ==
    (Finalized /\ info.install_in_dependency_order = "True") =>
        LET rest == Tail(dists)
            IsResolved(d) == d \notin DOMAIN md5s
            NotPython(d) == name_dist(d) # Python
        IN /\ name_dist(dists[1]) = Python
           /\ IsDependencyOrder(SelectSeq(rest, IsResolved))
           /\ rest = SelectSeq(rest, IsResolved)
                     \o SelectSeq(ExplicitSeq(info.packages), NotPython)

\* C18: a set finalized in dependency order in which python stands before
\* one of its dependencies, a resolved entry stands after its dependency,
\* and an explicit package was appended.
C18_Witness ==
    /\ Finalized
    /\ info.install_in_dependency_order = "True"
    /\ \E a, b \in DOMAIN dists :
          /\ 1 < a /\ a < b
          /\ name_dist(dists[a]) \in Depends(Python)
          /\ name_dist(dists[a]) \in Depends(name_dist(dists[b]))
    /\ \E k \in DOMAIN dists : dists[k] \in DOMAIN md5s

\* Ascending order of filenames.
Sorted(s) == \A a, b \in DOMAIN s : a < b => ~StrLess(s[b], s[a])

\* C19: when dependency order is not requested (the key is absent or
\* false), the sequence that main has ordered, whether check_dists then
\* accepts it or not, is in ascending filename order from index 1 on with
\* a python entry at index 0, and in ascending order throughout when it
\* holds no python entry.
C19_LexicographicExceptPython ==
    (/\ info.install_in_dependency_order # "True"
     /\ Finalized \/ (pc = "finalize" /\ status = "failed")) =>
        IF HasPython(dists)
        THEN name_dist(dists[1]) = Python /\ Sorted(Tail(dists))
        ELSE Sorted(dists)

\* C19: a finalized set, resolved in dependency order but not installed in
\* it, in which an explicit package stands before a resolved one and python
\* stands before an entry that sorts before it.
C19_Witness ==
    /\ Finalized
    /\ info.install_in_dependency_order = "False"
    /\ \E a, b \in DOMAIN dists :
          /\ 1 < a /\ a < b
          /\ dists[a] \in DOMAIN md5s
          /\ dists[b] \notin DOMAIN md5s
          /\ StrLess(dists[a], dists[1])

\* C20: when fetch has returned, info['_urls'] holds one pair per Dist of
\* the package set, in its order: the URL is the record's channel, ending
\* in '/', followed by the filename, the checksum is the record's, and an
\* inline checksum of the Dist equals it.
C20_RecordedPairs ==
    pc = "end" =>
        /\ Len(info_urls) = Len(dists)
        /\ \A k \in DOMAIN dists :
              LET l == Lookup(dists[k])
              IN /\ l.found
                 /\ info_urls[k].fn = filename_dist(dists[k])
                 /\ info_urls[k].channel = WithSlash(l.pkginfo.channel)
                 /\ info_urls[k].channel \in {RemoteChannel, LocalUrl}
                 /\ info_urls[k].md5 = l.pkginfo.md5
                 /\ InlineMd5(dists[k]) # NoMd5 => InlineMd5(dists[k]) = info_urls[k].md5

\* C20: fetch returned for a set with a Dist that carried an inline
\* checksum, a Dist taken from the download directory and a fetched Dist.
C20_Witness ==
    /\ pc = "end"
    /\ \E k \in DOMAIN dists : InlineMd5(dists[k]) # NoMd5
    /\ \E k \in DOMAIN dists : filename_dist(dists[k]) \notin Fetched(io)
    /\ \E k \in DOMAIN dists : filename_dist(dists[k]) \in Fetched(io)

====
